---- MODULE Spec2Model ----
(***************************************************************************)
(* Model of the tabular Q-learning agent of a4_base/agent/agent.py:        *)
(* Q_State (key encoding, reward) and Agent (load/save of the Q-table,     *)
(* choose_action, qLearning, updateQTable, epsilon-greedy selection).      *)
(*                                                                         *)
(* Numbers are exact rationals <<n, d>> (d > 0, lowest terms): the values  *)
(* the float expressions of the source denote.  The agent object is the    *)
(* record self = [q, disk, prevState, prevAction]; every method is an      *)
(* operator from the object before the call to the object after it.        *)
(***************************************************************************)
EXTENDS Integers, Sequences, FiniteSets, TLC

\* ------------------------------------------------------------ bounds ----

\* choose_action calls made in one run of the model (over all processes)
MaxTicks == 3

\* ------------------------------------------------- program constants ----

\* self.epsilon = 0
epsilon == 0

\* random.randrange(0, 100): the samples 0 .. RandStop - 1
RandStop == 100

\* the reward of a failed episode is -FailPenalty
FailPenalty == 10

\* State.ACTIONS = ['u', 'd', 'l', 'r', '_']
Actions == <<"u", "d", "l", "r", "_">>

\* Python's None, where it stands for a missing string
None == "<None>"

\* ---------------------------------------------------- exact numbers ----

Abs(n) == IF n < 0 THEN -n ELSE n

RECURSIVE GCD(_, _)
GCD(a, b) == IF b = 0 THEN a ELSE GCD(b, a % b)

\* the fraction n/d (d > 0) in lowest terms
Norm(r) ==
    LET g == GCD(Abs(r[1]), r[2])
    IN  IF g = 0 THEN <<0, 1>> ELSE <<r[1] \div g, r[2] \div g>>

RInt(n) == <<n, 1>>

RAdd(a, b) ==
    LET g == GCD(a[2], b[2])
        L == (a[2] \div g) * b[2]
    IN  Norm(<<a[1] * (L \div a[2]) + b[1] * (L \div b[2]), L>>)

RSub(a, b) == RAdd(a, <<-b[1], b[2]>>)

RMul(a, b) == Norm(<<a[1] * b[1], a[2] * b[2]>>)

RLess(a, b) ==
    LET g == GCD(a[2], b[2])
        L == (a[2] \div g) * b[2]
    IN  a[1] * (L \div a[2]) < b[1] * (L \div b[2])

\* self.alpha = 0.1
alpha == Norm(<<1, 10>>)

\* self.gamma = 0.6
gamma == Norm(<<6, 10>>)

\* max(values): the first of the largest entries
RECURSIVE MaxFrom(_, _, _)
MaxFrom(values, i, best) ==
    IF i > Len(values) THEN best
    ELSE MaxFrom(values, i + 1, IF RLess(best, values[i]) THEN values[i] ELSE best)

max(values) == MaxFrom(values, 2, values[1])

\* list[i], with Python's positions 0 .. len - 1
Nth(list, i) == list[i + 1]

\* values.index(x): the smallest position holding x
index(values, x) ==
    CHOOSE i \in 0..(Len(values) - 1) :
        /\ Nth(values, i) = x
        /\ \A j \in 0..(i - 1) : Nth(values, j) # x

\* ------------------------------------------------------- game state ----

\* State.get(x, y) of the missing state.py: the occupant symbol of a cell,
\* or nothing (the falsy Absent) for an empty or off-grid cell
Absent == ""

Get(s, x, y) ==
    IF <<x, y>> \in DOMAIN s.cells THEN s.cells[<<x, y>>] ELSE Absent

\* `v or '_'`
OrBlank(v) == IF v = Absent THEN "_" ELSE v

\* compute_key with the cell behind the frog read one row too far
compute_key_RowSlip(s) ==
    <<  OrBlank(Get(s, s.frog_x - 2, s.frog_y - 1)),
        OrBlank(Get(s, s.frog_x - 1, s.frog_y - 1)),
        OrBlank(Get(s, s.frog_x,     s.frog_y - 1)),
        OrBlank(Get(s, s.frog_x + 1, s.frog_y - 1)),
        OrBlank(Get(s, s.frog_x + 2, s.frog_y - 1)),
        OrBlank(Get(s, s.frog_x - 2, s.frog_y - 2)),
        OrBlank(Get(s, s.frog_x - 1, s.frog_y - 2)),
        OrBlank(Get(s, s.frog_x,     s.frog_y - 2)),
        OrBlank(Get(s, s.frog_x + 1, s.frog_y - 2)),
        OrBlank(Get(s, s.frog_x + 2, s.frog_y - 2)),
        OrBlank(Get(s, s.frog_x - 2, s.frog_y)),
        OrBlank(Get(s, s.frog_x - 1, s.frog_y)),
        OrBlank(Get(s, s.frog_x,     s.frog_y)),
        OrBlank(Get(s, s.frog_x + 1, s.frog_y)),
        OrBlank(Get(s, s.frog_x + 2, s.frog_y)),
        OrBlank(Get(s, s.frog_x - 2, s.frog_y + 1)),
        OrBlank(Get(s, s.frog_x - 1, s.frog_y + 1)),
        OrBlank(Get(s, s.frog_x,     s.frog_y + 2)),
        OrBlank(Get(s, s.frog_x + 1, s.frog_y + 1)),
        OrBlank(Get(s, s.frog_x + 2, s.frog_y + 1)) >>

\* _compute_key reading the first cell twice and the second never
compute_key_Dup(s) ==
    <<  OrBlank(Get(s, s.frog_x - 2, s.frog_y - 1)),
        OrBlank(Get(s, s.frog_x - 2, s.frog_y - 1)),
        OrBlank(Get(s, s.frog_x,     s.frog_y - 1)),
        OrBlank(Get(s, s.frog_x + 1, s.frog_y - 1)),
        OrBlank(Get(s, s.frog_x + 2, s.frog_y - 1)),
        OrBlank(Get(s, s.frog_x - 2, s.frog_y - 2)),
        OrBlank(Get(s, s.frog_x - 1, s.frog_y - 2)),
        OrBlank(Get(s, s.frog_x,     s.frog_y - 2)),
        OrBlank(Get(s, s.frog_x + 1, s.frog_y - 2)),
        OrBlank(Get(s, s.frog_x + 2, s.frog_y - 2)),
        OrBlank(Get(s, s.frog_x - 2, s.frog_y)),
        OrBlank(Get(s, s.frog_x - 1, s.frog_y)),
        OrBlank(Get(s, s.frog_x,     s.frog_y)),
        OrBlank(Get(s, s.frog_x + 1, s.frog_y)),
        OrBlank(Get(s, s.frog_x + 2, s.frog_y)),
        OrBlank(Get(s, s.frog_x - 2, s.frog_y + 1)),
        OrBlank(Get(s, s.frog_x - 1, s.frog_y + 1)),
        OrBlank(Get(s, s.frog_x,     s.frog_y + 1)),
        OrBlank(Get(s, s.frog_x + 1, s.frog_y + 1)),
        OrBlank(Get(s, s.frog_x + 2, s.frog_y + 1)) >>

\* Q_State._compute_key: the 20 symbols joined, in the source's order
compute_key(s) ==
    <<  OrBlank(Get(s, s.frog_x - 2, s.frog_y - 1)),
        OrBlank(Get(s, s.frog_x - 1, s.frog_y - 1)),
        OrBlank(Get(s, s.frog_x,     s.frog_y - 1)),
        OrBlank(Get(s, s.frog_x + 1, s.frog_y - 1)),
        OrBlank(Get(s, s.frog_x + 2, s.frog_y - 1)),
        OrBlank(Get(s, s.frog_x - 2, s.frog_y - 2)),
        OrBlank(Get(s, s.frog_x - 1, s.frog_y - 2)),
        OrBlank(Get(s, s.frog_x,     s.frog_y - 2)),
        OrBlank(Get(s, s.frog_x + 1, s.frog_y - 2)),
        OrBlank(Get(s, s.frog_x + 2, s.frog_y - 2)),
        OrBlank(Get(s, s.frog_x - 2, s.frog_y)),
        OrBlank(Get(s, s.frog_x - 1, s.frog_y)),
        OrBlank(Get(s, s.frog_x,     s.frog_y)),
        OrBlank(Get(s, s.frog_x + 1, s.frog_y)),
        OrBlank(Get(s, s.frog_x + 2, s.frog_y)),
        OrBlank(Get(s, s.frog_x - 2, s.frog_y + 1)),
        OrBlank(Get(s, s.frog_x - 1, s.frog_y + 1)),
        OrBlank(Get(s, s.frog_x,     s.frog_y + 1)),
        OrBlank(Get(s, s.frog_x + 1, s.frog_y + 1)),
        OrBlank(Get(s, s.frog_x + 2, s.frog_y + 1)) >>

\* Q_State(string): the parsed state with its key
Q_State(s) ==
    [ frog_x |-> s.frog_x, frog_y |-> s.frog_y, cells |-> s.cells,
      at_goal |-> s.at_goal, is_done |-> s.is_done, score |-> s.score,
      key |-> compute_key(s) ]

\* reward with the two tests in the other order
reward_DoneFirst(s) ==
    IF s.is_done THEN -FailPenalty
    ELSE IF s.at_goal THEN s.score
    ELSE 0

\* Q_State.reward
reward(s) ==
    IF s.at_goal THEN s.score
    ELSE IF s.is_done THEN -FailPenalty
    ELSE 0

\* ---------------------------------------------------------- Q-table ----
\* self.q is a dict: its entries <<key, values>> in insertion order.

Keys(qq) == { qq[i][1] : i \in 1..Len(qq) }

Has(qq, k) == k \in Keys(qq)

Pos(qq, k) == CHOOSE i \in 1..Len(qq) : qq[i][1] = k

\* qq[k]
Lookup(qq, k) == qq[Pos(qq, k)][2]

\* qq[k] = values
Store(qq, k, values) ==
    IF Has(qq, k) THEN [qq EXCEPT ![Pos(qq, k)] = <<k, values>>]
    ELSE Append(qq, <<k, values>>)

\* the dict as a mapping: what == compares
AsMap(qq) == [ k \in Keys(qq) |-> Lookup(qq, k) ]

\* a vector one entry short (used to test the five-entries property)
Zeros_Four == << RInt(0), RInt(0), RInt(0), RInt(0) >>

\* [0,0,0,0,0]
Zeros == << RInt(0), RInt(0), RInt(0), RInt(0), RInt(0) >>

\* ------------------------------------------------------ JSON image ----
\* The file is a JSON object: its members in order, each a name and an
\* array of number literals.  A number literal is <<m, e>>, the decimal
\* m * 10^-e that repr() prints for the value.

RECURSIVE Pow10(_)
Pow10(e) == IF e = 0 THEN 1 ELSE 10 * Pow10(e - 1)

\* the decimal places needed to print a value of denominator d exactly
RECURSIVE DecPlaces(_, _)
DecPlaces(d, e) ==
    IF Pow10(e) % d = 0 \/ e >= 9 THEN e ELSE DecPlaces(d, e + 1)

\* ToJsonNumber printing one decimal place only
ToJsonNumber_OneDecimal(r) == << (r[1] * 10) \div r[2], 1 >>

ToJsonNumber(r) ==
    LET e == DecPlaces(r[2], 0)
    IN  << r[1] * (Pow10(e) \div r[2]), e >>

FromJsonNumber(lit) == Norm(<< lit[1], Pow10(lit[2]) >>)

\* json.dump(self.q, f): the text written
json_dump(qq) ==
    [ i \in 1..Len(qq) |->
        [ name  |-> qq[i][1],
          array |-> [ j \in 1..Len(qq[i][2]) |-> ToJsonNumber(qq[i][2][j]) ] ] ]

\* json.load(f): the members stored into a new dict, one after the other
RECURSIVE LoadFrom(_, _, _)
LoadFrom(text, i, acc) ==
    IF i > Len(text) THEN acc
    ELSE LoadFrom(text, i + 1,
            Store(acc, text[i].name,
                  [ j \in 1..Len(text[i].array) |-> FromJsonNumber(text[i].array[j]) ]))

json_load(text) == LoadFrom(text, 1, << >>)

\* the file at self.path: missing, or holding a text
NoFile == [ exists |-> FALSE, text |-> << >> ]

File(text) == [ exists |-> TRUE, text |-> text ]

\* ------------------------------------------------------------ Agent ----
\* self = [train, q, disk, prevState, prevAction]; prevState is NoState
\* (None) or <<the Q_State>>.

NoState == << >>

\* `if self.train`
Truthy(train) == train # None /\ train # ""

\* save writing the file for a training agent only
save_OnlyWhenTraining(self) ==
    IF Truthy(self.train) THEN [self EXCEPT !.disk = File(json_dump(self.q))]
    ELSE self

\* Agent.save
save(self) == [self EXCEPT !.disk = File(json_dump(self.q))]

\* load that starts empty whenever the file is missing
load_NeverRaises(self) ==
    IF self.disk.exists
    THEN [ ok |-> TRUE, self |-> [self EXCEPT !.q = json_load(self.disk.text)] ]
    ELSE [ ok |-> TRUE, self |-> self ]

\* Agent.load: ok is FALSE when it raises
load(self) ==
    IF self.disk.exists
    THEN [ ok |-> TRUE, self |-> [self EXCEPT !.q = json_load(self.disk.text)] ]
    ELSE IF Truthy(self.train)
    THEN [ ok |-> TRUE, self |-> self ]
    ELSE [ ok |-> FALSE, self |-> self ]

\* Agent.__init__(train), with the file found at the path
Agent(train, disk) ==
    load([ train |-> train, q |-> << >>, disk |-> disk,
           prevState |-> NoState, prevAction |-> None ])

\* addNewStateToQTable without its save()
addNewStateToQTable_NoSave(self, stateKey) ==
    [self EXCEPT !.q = Store(self.q, stateKey, Zeros)]

\* Agent.addNewStateToQTable
addNewStateToQTable(self, stateKey) ==
    save([self EXCEPT !.q = Store(self.q, stateKey, Zeros)])

\* actionToIndex with the positions of "l" and "r" exchanged
actionToIndex_Swapped(actionString) ==
    IF actionString = "u" THEN 0
    ELSE IF actionString = "d" THEN 1
    ELSE IF actionString = "l" THEN 3
    ELSE IF actionString = "r" THEN 2
    ELSE 4

\* Agent.actionToIndex
actionToIndex(actionString) ==
    IF actionString = "u" THEN 0
    ELSE IF actionString = "d" THEN 1
    ELSE IF actionString = "l" THEN 2
    ELSE IF actionString = "r" THEN 3
    ELSE 4

\* updateQTable weighting the old value by alpha instead of 1 - alpha
updateQTable_OldByAlpha(self, currStateKey, currStateAction, prevStateKey, prevStateAction, R) ==
    LET prevActionIndex == actionToIndex(self.prevAction)
        pKey == self.prevState[1].key
        maxOfCurrActions == max(Lookup(self.q, currStateKey))
        old == Lookup(self.q, pKey)
        newQValue ==
            RAdd(RMul(alpha, Nth(old, prevActionIndex)),
                 RMul(alpha, RAdd(RInt(R), RMul(gamma, maxOfCurrActions))))
    IN  save([self EXCEPT !.q =
                Store(self.q, pKey, [old EXCEPT ![prevActionIndex + 1] = newQValue])])

\* updateQTable writing the new value over the whole vector of the prior key
updateQTable_WholeRow(self, currStateKey, currStateAction, prevStateKey, prevStateAction, R) ==
    LET prevActionIndex == actionToIndex(self.prevAction)
        pKey == self.prevState[1].key
        maxOfCurrActions == max(Lookup(self.q, currStateKey))
        old == Lookup(self.q, pKey)
        newQValue ==
            RAdd(RMul(RSub(RInt(1), alpha), Nth(old, prevActionIndex)),
                 RMul(alpha, RAdd(RInt(R), RMul(gamma, maxOfCurrActions))))
    IN  save([self EXCEPT !.q =
                Store(self.q, pKey, [ j \in 1..Len(old) |-> newQValue ])])

\* updateQTable adding gamma to the best next value instead of scaling by it
updateQTable_GammaAdded(self, currStateKey, currStateAction, prevStateKey, prevStateAction, R) ==
    LET prevActionIndex == actionToIndex(self.prevAction)
        pKey == self.prevState[1].key
        maxOfCurrActions == max(Lookup(self.q, currStateKey))
        old == Lookup(self.q, pKey)
        newQValue ==
            RAdd(RMul(RSub(RInt(1), alpha), Nth(old, prevActionIndex)),
                 RMul(alpha, RAdd(RInt(R), RAdd(gamma, maxOfCurrActions))))
    IN  save([self EXCEPT !.q =
                Store(self.q, pKey, [old EXCEPT ![prevActionIndex + 1] = newQValue])])

\* Agent.updateQTable
updateQTable(self, currStateKey, currStateAction, prevStateKey, prevStateAction, R) ==
    LET prevActionIndex == actionToIndex(self.prevAction)
        pKey == self.prevState[1].key
        maxOfCurrActions == max(Lookup(self.q, currStateKey))
        old == Lookup(self.q, pKey)
        newQValue ==
            RAdd(RMul(RSub(RInt(1), alpha), Nth(old, prevActionIndex)),
                 RMul(alpha, RAdd(RInt(R), RMul(gamma, maxOfCurrActions))))
    IN  save([self EXCEPT !.q =
                Store(self.q, pKey, [old EXCEPT ![prevActionIndex + 1] = newQValue])])

\* pickBestAction taking the last of the largest entries
pickBestAction_LastTie(self, stateKey) ==
    LET actionValues == Lookup(self.q, stateKey)
        m == max(actionValues)
    IN  Actions[CHOOSE i \in 1..Len(actionValues) :
                    /\ actionValues[i] = m
                    /\ \A j \in (i + 1)..Len(actionValues) : actionValues[j] # m]

\* Agent.pickBestAction
pickBestAction(self, stateKey) ==
    LET actionValues == Lookup(self.q, stateKey)
    IN  Nth(Actions, index(actionValues, max(actionValues)))

\* Agent.pickRandomAction: choice is the position random.choice draws
pickRandomAction(choice) == Nth(Actions, choice)

\* `rand <= self.epsilon * 100`
Explore(rand) == rand <= epsilon * 100

\* Agent.findBestAction: rand is the sample random.randrange draws
findBestAction(self, stateKey, rand, choice) ==
    IF Explore(rand) THEN pickRandomAction(choice)
    ELSE pickBestAction(self, stateKey)

\* Agent.qLearning: the object after the call and the action returned
qLearning(self, s, rand, choice) ==
    LET currQState == Q_State(s)
        currStateKey == currQState.key
    IN  IF Has(self.q, currStateKey)
        THEN LET action == findBestAction(self, currStateKey, rand, choice)
                 R == reward(currQState)
             IN  [ self |-> updateQTable(self, currStateKey, action,
                                         self.prevState[1].key, self.prevAction, R),
                   action |-> action ]
        ELSE [ self |-> self, action |-> None ]

\* choose_action storing the zero vector without testing for the key
choose_action_AlwaysInit(self, s, rand, choice) ==
    LET currQState == Q_State(s)
        currStateKey == currQState.key
        self1 == addNewStateToQTable(self, currStateKey)
    IN  IF self1.prevState = NoState
        THEN LET bestAction == findBestAction(self1, currStateKey, rand, choice)
             IN  [ self |-> [self1 EXCEPT !.prevState = <<currQState>>,
                                          !.prevAction = bestAction],
                   action |-> bestAction ]
        ELSE LET r == qLearning(self1, s, rand, choice)
             IN  [ self |-> [r.self EXCEPT !.prevState = <<currQState>>,
                                           !.prevAction = r.action],
                   action |-> r.action ]

\* choose_action forgetting the prior transition when the episode has ended
choose_action_EpisodeReset(self, s, rand, choice) ==
    LET currQState == Q_State(s)
        currStateKey == currQState.key
        self1 == IF ~Has(self.q, currStateKey)
                 THEN addNewStateToQTable(self, currStateKey)
                 ELSE self
        kept == IF currQState.is_done THEN NoState ELSE <<currQState>>
    IN  IF self1.prevState = NoState
        THEN LET bestAction == findBestAction(self1, currStateKey, rand, choice)
             IN  [ self |-> [self1 EXCEPT !.prevState = kept,
                                          !.prevAction = bestAction],
                   action |-> bestAction ]
        ELSE LET r == qLearning(self1, s, rand, choice)
             IN  [ self |-> [r.self EXCEPT !.prevState = kept,
                                           !.prevAction = r.action],
                   action |-> r.action ]

\* choose_action learning on the first call too, from the state it receives
choose_action_UpdateOnFirst(self, s, rand, choice) ==
    LET currQState == Q_State(s)
        currStateKey == currQState.key
        self1 == IF ~Has(self.q, currStateKey)
                 THEN addNewStateToQTable(self, currStateKey)
                 ELSE self
    IN  IF self1.prevState = NoState
        THEN LET bestAction == findBestAction(self1, currStateKey, rand, choice)
                 first == [self1 EXCEPT !.prevState = <<currQState>>,
                                        !.prevAction = bestAction]
             IN  [ self |-> updateQTable(first, currStateKey, bestAction,
                                         currStateKey, bestAction,
                                         reward(currQState)),
                   action |-> bestAction ]
        ELSE LET r == qLearning(self1, s, rand, choice)
             IN  [ self |-> [r.self EXCEPT !.prevState = <<currQState>>,
                                           !.prevAction = r.action],
                   action |-> r.action ]

\* Agent.choose_action: the object after the call and the action returned
choose_action(self, s, rand, choice) ==
    LET currQState == Q_State(s)
        currStateKey == currQState.key
        self1 == IF ~Has(self.q, currStateKey)
                 THEN addNewStateToQTable(self, currStateKey)
                 ELSE self
    IN  IF self1.prevState = NoState
        THEN LET bestAction == findBestAction(self1, currStateKey, rand, choice)
             IN  [ self |-> [self1 EXCEPT !.prevState = <<currQState>>,
                                          !.prevAction = bestAction],
                   action |-> bestAction ]
        ELSE LET r == qLearning(self1, s, rand, choice)
             IN  [ self |-> [r.self EXCEPT !.prevState = <<currQState>>,
                                           !.prevAction = r.action],
                   action |-> r.action ]

\* --------------------------------------------------------- inputs ----

\* the grid of the game states drawn as inputs
Xs == 0..1

Ys == 0..2

Symbols == {"c"}

Scores == {0, 10}

\* where the frog and the objects are
Placements ==
    [ frog_x : Xs, frog_y : Ys, cells : [Xs \X Ys -> Symbols \cup {Absent}] ]

\* how the episode stands
Outcomes == [ at_goal : BOOLEAN, is_done : BOOLEAN, score : Scores ]

Raw(g, f) ==
    [ frog_x |-> g.frog_x, frog_y |-> g.frog_y, cells |-> g.cells,
      at_goal |-> f.at_goal, is_done |-> f.is_done, score |-> f.score ]

RawStates == { Raw(g, f) : g \in Placements, f \in Outcomes }

\* a grid that holds the whole window of a frog in its middle
WideXs == 0..4

WideYs == 0..3

\* the frog anywhere on the wide grid, one car or none on it
WideStates ==
    { [ frog_x |-> fx, frog_y |-> fy,
        cells |-> [ c \in WideXs \X WideYs |-> IF <<c>> = car THEN "c" ELSE Absent ],
        at_goal |-> FALSE, is_done |-> FALSE, score |-> 0 ] :
      fx \in WideXs, fy \in WideYs,
      car \in { <<c>> : c \in WideXs \X WideYs } \cup { << >> } }

\* the frog at <<0, 1>> with the cell ahead of it holding sym
Board(sym) == [ c \in Xs \X Ys |-> IF c = <<0, 0>> THEN sym ELSE Absent ]

\* the states the game sends in a run: a clear road, a car ahead that ends
\* the episode, the goal reached
TickStates ==
    { [ frog_x |-> 0, frog_y |-> 1, cells |-> Board(Absent),
        at_goal |-> FALSE, is_done |-> FALSE, score |-> 0 ],
      [ frog_x |-> 0, frog_y |-> 1, cells |-> Board("c"),
        at_goal |-> FALSE, is_done |-> TRUE, score |-> 0 ],
      [ frog_x |-> 0, frog_y |-> 1, cells |-> Board(Absent),
        at_goal |-> TRUE, is_done |-> TRUE, score |-> 10 ] }

\* the states of a run without goal and without failure: a clear road and a
\* car ahead that has not hit the frog, before and after points were scored
QuietStates ==
    { [ frog_x |-> 0, frog_y |-> 1, cells |-> Board(sym),
        at_goal |-> FALSE, is_done |-> FALSE, score |-> sc ] :
      sym \in {Absent, "c"}, sc \in Scores }

\* random.randrange(0, 100)
RandRange == 0..(RandStop - 1)

\* one sample for each way the test on the sample can go
RandClasses ==
    { CHOOSE rand \in RandRange : Explore(rand) = b :
        b \in { Explore(rand) : rand \in RandRange } }

\* self.name = train or 'q'
name(t) == IF t # None /\ t # "" THEN t ELSE "q"

\* the table whose file (train/q.json) is modelled
TableName == "q"

\* the training identifiers a process is started with: none, or the one
\* that names the same file
Trains == {None, "q"}

\* ----------------------------------------------------------- state ----

VARIABLES
    pc,          \* "new": no agent yet; "ready": constructed; "failed": __init__ raised
    train,       \* self.train
    q,           \* self.q
    disk,        \* the file at self.path
    prevState,   \* self.prevState
    prevAction,  \* self.prevAction
    ret,         \* what the last choose_action returned
    branch,      \* the branch findBestAction took in the last choose_action
    saved,       \* the table the last save() wrote
    calls,       \* choose_action calls so far
    arg,         \* the input of a function applied on its own
    res          \* its result

vars == << pc, train, q, disk, prevState, prevAction, ret, branch, saved, calls, arg, res >>

Self == [ train |-> train, q |-> q, disk |-> disk,
          prevState |-> prevState, prevAction |-> prevAction ]

Init ==
    /\ pc = "new"
    /\ train = None
    /\ q = << >>
    /\ disk = NoFile
    /\ prevState = NoState
    /\ prevAction = None
    /\ ret = None
    /\ branch = None
    /\ saved = << >>
    /\ calls = 0
    /\ arg = << >>
    /\ res = << >>

\* agent = Agent(train)
Construct ==
    /\ pc = "new"
    /\ \E t \in Trains :
        LET r == Agent(t, disk)
        IN  /\ name(t) = TableName
            /\ train' = t
            /\ IF r.ok
               THEN /\ pc' = "ready"
                    /\ q' = r.self.q
                    /\ prevState' = r.self.prevState
                    /\ prevAction' = r.self.prevAction
               ELSE /\ pc' = "failed"
                    /\ UNCHANGED << q, prevState, prevAction >>
    /\ UNCHANGED << disk, ret, branch, saved, calls, arg, res >>

\* agent.choose_action(state_string), the game's state drawn from states
TickOn(states) ==
    /\ pc = "ready"
    /\ calls < MaxTicks
    /\ \E s \in states, rand \in RandClasses :
        \E choice \in (IF Explore(rand) THEN 0..(Len(Actions) - 1) ELSE {0}) :
            LET r == choose_action(Self, s, rand, choice)
            IN  /\ q' = r.self.q
                /\ disk' = r.self.disk
                /\ prevState' = r.self.prevState
                /\ prevAction' = r.self.prevAction
                /\ ret' = r.action
                /\ branch' = IF Explore(rand) THEN "random" ELSE "best"
                /\ saved' = IF r.self.disk # disk THEN r.self.q ELSE saved
    /\ calls' = calls + 1
    /\ UNCHANGED << pc, train, arg, res >>

Tick == TickOn(TickStates)

\* the process ends; the file stays
Exit ==
    /\ pc \in {"ready", "failed"}
    /\ pc' = "new"
    /\ train' = None
    /\ q' = << >>
    /\ prevState' = NoState
    /\ prevAction' = None
    /\ ret' = None
    /\ branch' = None
    /\ UNCHANGED << disk, saved, calls, arg, res >>

Next == Construct \/ Tick \/ Exit

Spec == Init /\ [][Next]_vars

\* The same program in runs where the game neither ends nor scores a goal.
TickQuiet == TickOn(QuietStates)

NextQuiet == Construct \/ TickQuiet \/ Exit

SpecQuiet == Init /\ [][NextQuiet]_vars

\* ------------------------------------------ functions on their own ----
\* A second specification applies Q_State (its key and its reward) and
\* pickBestAction to inputs drawn from bounded sets.

\* the value vectors drawn as inputs
PickValues == { RInt(-1), RInt(0), Norm(<<1, 2>>) }

PickVectors == [ 1..Len(Actions) -> PickValues ]

\* a table holding one vector, under the key of an empty window
OneKey == compute_key([ frog_x |-> 0, frog_y |-> 0, cells |-> << >> ])

InitFun ==
    /\ pc = "fun"
    /\ train = None
    /\ q = << >>
    /\ disk = NoFile
    /\ prevState = NoState
    /\ prevAction = None
    /\ ret = None
    /\ branch = None
    /\ saved = << >>
    /\ calls = 0
    /\ res = << >>
    /\ \/ \E s \in RawStates \cup WideStates : arg = [ fn |-> "state", s |-> s ]
       \/ \E values \in PickVectors : arg = [ fn |-> "pick", values |-> values ]
       \/ \E values \in PickVectors, choice \in 0..(Len(Actions) - 1) :
              arg = [ fn |-> "find", values |-> values, choice |-> choice ]

\* Q_State(state_string) and its reward()
NewQState ==
    /\ pc = "fun"
    /\ arg.fn = "state"
    /\ res = << >>
    /\ res' = << [ key |-> Q_State(arg.s).key, reward |-> reward(Q_State(arg.s)) ] >>
    /\ UNCHANGED << pc, train, q, disk, prevState, prevAction, ret, branch, saved, calls, arg >>

\* pickBestAction(key) on a table holding the vector
PickBest ==
    /\ pc = "fun"
    /\ arg.fn = "pick"
    /\ res = << >>
    /\ res' = << pickBestAction([ q |-> << <<OneKey, arg.values>> >> ], OneKey) >>
    /\ UNCHANGED << pc, train, q, disk, prevState, prevAction, ret, branch, saved, calls, arg >>

\* findBestAction(key) on a table holding the vector, once for each sample
\* random.randrange(0, 100) can draw, random.choice drawing arg.choice
FindBest ==
    /\ pc = "fun"
    /\ arg.fn = "find"
    /\ res = << >>
    /\ res' = << [ rand \in RandRange |->
                     findBestAction([ q |-> << <<OneKey, arg.values>> >> ],
                                    OneKey, rand, arg.choice) ] >>
    /\ UNCHANGED << pc, train, q, disk, prevState, prevAction, ret, branch, saved, calls, arg >>

NextFun == NewQState \/ PickBest \/ FindBest

SpecFun == InitFun /\ [][NextFun]_vars

\* ----------------------------------------------- binary64 arithmetic ----
\* The numbers of updateQTable are Python floats: IEEE 754 binary64, every
\* operation rounded to nearest, ties to even.  A float here is a record
\* [m, e] of value m * 2^e, m = 0 or 2^52 <= m < 2^53; m is a natural number
\* held in limbs of 13 bits, least significant first.  Only the
\* non-negative finite values that the update of a non-negative table
\* entry with a non-negative reward produces are covered.

LimbBase == 2^13

Limbs == 1..9

TopBit == (13 * 9) - 1

BigZero == [ j \in Limbs |-> 0 ]

\* a natural number below 2^31 in limbs
Big(n) ==
    [ j \in Limbs |-> IF j = 1 THEN n % LimbBase
                      ELSE IF j = 2 THEN (n \div LimbBase) % LimbBase
                      ELSE IF j = 3 THEN n \div (LimbBase * LimbBase)
                      ELSE 0 ]

\* bit i (from 0) of a natural number
Bit(a, i) ==
    IF i < 0 \/ i > TopBit THEN 0
    ELSE (a[(i \div 13) + 1] \div (2^(i % 13))) % 2

RECURSIVE LimbOfBits(_, _, _)
LimbOfBits(bits, low, t) ==
    IF t = 13 THEN 0
    ELSE bits[low + t] * (2^t) + LimbOfBits(bits, low, t + 1)

\* the natural number of a function from bit positions to bits
Pack(bits) == [ j \in Limbs |-> LimbOfBits(bits, 13 * (j - 1), 0) ]

ShiftR(a, s) == Pack([ i \in 0..TopBit |-> Bit(a, i + s) ])

ShiftL(a, s) == Pack([ i \in 0..TopBit |-> Bit(a, i - s) ])

\* the number of bits of a natural number
BitLen(a) ==
    IF a = BigZero THEN 0
    ELSE 1 + CHOOSE i \in 0..TopBit :
                 Bit(a, i) = 1 /\ \A j \in (i + 1)..TopBit : Bit(a, j) = 0

RECURSIVE AddLimbs(_, _, _, _)
AddLimbs(a, b, j, carry) ==
    IF j > 9 THEN << >>
    ELSE LET t == a[j] + b[j] + carry
         IN  << t % LimbBase >> \o AddLimbs(a, b, j + 1, t \div LimbBase)

BigAdd(a, b) == AddLimbs(a, b, 1, 0)

RECURSIVE SubLimbs(_, _, _, _)
SubLimbs(a, b, j, borrow) ==
    IF j > 9 THEN << >>
    ELSE LET t == a[j] - b[j] - borrow
         IN  IF t < 0 THEN << t + LimbBase >> \o SubLimbs(a, b, j + 1, 1)
             ELSE << t >> \o SubLimbs(a, b, j + 1, 0)

\* a - b for a >= b
BigSub(a, b) == SubLimbs(a, b, 1, 0)

RECURSIVE ColSum(_, _, _, _)
ColSum(a, b, k, i) ==
    IF i > k THEN 0 ELSE a[i] * b[k + 1 - i] + ColSum(a, b, k, i + 1)

RECURSIVE MulLimbs(_, _, _, _)
MulLimbs(a, b, k, carry) ==
    IF k > 9 THEN << >>
    ELSE LET t == ColSum(a, b, k, 1) + carry
         IN  << t % LimbBase >> \o MulLimbs(a, b, k + 1, t \div LimbBase)

\* a * b for a product below 2^117
BigMul(a, b) == MulLimbs(a, b, 1, 0)

BigLess(a, b) ==
    \E j \in Limbs : a[j] < b[j] /\ \A i \in (j + 1)..9 : a[i] = b[i]

\* the quotient of a natural number by d < 2^13, from limb j downwards, and
\* the remainder: << the quotient's limbs, the remainder >>
RECURSIVE DivLimbs(_, _, _, _)
DivLimbs(a, d, j, rem) ==
    IF j = 0 THEN << << >>, rem >>
    ELSE LET t == rem * LimbBase + a[j]
             rest == DivLimbs(a, d, j - 1, t % d)
         IN  << rest[1] \o << t \div d >>, rest[2] >>

\* rounding toward zero instead of to nearest
FRound_TowardZero(P, e) ==
    LET n == BitLen(P)
    IN  IF n = 0 THEN [ m |-> BigZero, e |-> 0 ]
        ELSE IF n <= 53 THEN [ m |-> ShiftL(P, 53 - n), e |-> e - (53 - n) ]
        ELSE [ m |-> ShiftR(P, n - 53), e |-> e + (n - 53) ]

\* P * 2^e rounded to 53 bits, to nearest, ties to even
FRound(P, e) ==
    LET n == BitLen(P)
    IN  IF n = 0 THEN [ m |-> BigZero, e |-> 0 ]
        ELSE IF n <= 53 THEN [ m |-> ShiftL(P, 53 - n), e |-> e - (53 - n) ]
        ELSE LET s == n - 53
                 kept == ShiftR(P, s)
                 half == Bit(P, s - 1) = 1
                 sticky == \E i \in 0..(s - 2) : Bit(P, i) = 1
                 odd == Bit(P, s) = 1
                 r == IF half /\ (sticky \/ odd) THEN BigAdd(kept, Big(1)) ELSE kept
             IN  IF BitLen(r) = 54 THEN [ m |-> ShiftR(r, 1), e |-> e + s + 1 ]
                 ELSE [ m |-> r, e |-> e + s ]

\* float(n) of an integer 0 <= n < 2^31
FInt(n) == FRound(Big(n), 0)

\* the float a decimal literal of value n/d denotes (0 < n, d < 2^13): the
\* quotient to 60 binary places, a last bit set when the division left a
\* remainder, rounded
FLit(r) ==
    LET qr == DivLimbs(ShiftL(Big(r[1]), 60), r[2], 9, 0)
        tail == IF qr[2] = 0 THEN BigZero ELSE Big(1)
    IN  FRound(BigAdd(ShiftL(qr[1], 1), tail), -61)

\* x + y
FAdd(x, y) ==
    IF x.m = BigZero THEN y
    ELSE IF y.m = BigZero THEN x
    ELSE LET e0 == IF x.e < y.e THEN x.e ELSE y.e
         IN  FRound(BigAdd(ShiftL(x.m, x.e - e0), ShiftL(y.m, y.e - e0)), e0)

\* x - y for x >= y
FSub(x, y) ==
    IF y.m = BigZero THEN x
    ELSE LET e0 == IF x.e < y.e THEN x.e ELSE y.e
         IN  FRound(BigSub(ShiftL(x.m, x.e - e0), ShiftL(y.m, y.e - e0)), e0)

\* x * y
FMul(x, y) == FRound(BigMul(x.m, y.m), x.e + y.e)

\* x < y
FLess(x, y) ==
    IF y.m = BigZero THEN FALSE
    ELSE IF x.m = BigZero THEN TRUE
    ELSE x.e < y.e \/ (x.e = y.e /\ BigLess(x.m, y.m))

\* newQValue of Agent.updateQTable as Python evaluates it
newQValue(oldQ, R, maxOfCurrActions) ==
    FAdd(FMul(FSub(FInt(1), FLit(alpha)), oldQ),
         FMul(FLit(alpha), FAdd(FInt(R), FMul(FLit(gamma), maxOfCurrActions))))

\* The update applied again and again to one entry, the reward and the best
\* next value staying the same: arg is the call's inputs and the number of
\* applications made, res the entry.

MaxApplications == 340

InitUpdate ==
    /\ pc = "update"
    /\ train = None
    /\ q = << >>
    /\ disk = NoFile
    /\ prevState = NoState
    /\ prevAction = None
    /\ ret = None
    /\ branch = None
    /\ saved = << >>
    /\ calls = 0
    /\ arg = [ fn |-> "update", R |-> 10, maxNext |-> 0, n |-> 0 ]
    /\ res = << FInt(0) >>

\* one more updateQTable on the entry
ApplyUpdate ==
    /\ pc = "update"
    /\ arg.n < MaxApplications
    /\ res' = << newQValue(res[1], arg.R, FInt(arg.maxNext)) >>
    /\ arg' = [arg EXCEPT !.n = @ + 1]
    /\ UNCHANGED << pc, train, q, disk, prevState, prevAction, ret, branch, saved, calls >>

NextUpdate == ApplyUpdate

SpecUpdate == InitUpdate /\ [][NextUpdate]_vars

\* ---------------------------------------------------------- claims ----

\* a choose_action call is the step that counts one
IsTick == pc = "ready" /\ calls' = calls + 1

\* the position (from 1) of an action in the canonical order u, d, l, r, _
Canon(a) == CHOOSE i \in 1..Len(Actions) : Actions[i] = a

\* the positions (from 1) where a vector has its largest value
ArgMaxSet(values) ==
    { i \in 1..Len(values) : \A j \in 1..Len(values) : ~RLess(values[i], values[j]) }

Least(S) == CHOOSE i \in S : \A j \in S : i <= j

\* C1: on every tick after the first the TD update is applied first and the
\* action is selected afterwards, so a greedy action returned is the argmax
\* of the current key's vector as it stands after the update.
C1_SelectAfterUpdate ==
    [][ (IsTick /\ prevState # NoState /\ branch' = "best")
        => ret' = Actions[Least(ArgMaxSet(Lookup(q', prevState'[1].key)))] ]_vars

\* C2: with epsilon = 0 no sample of findBestAction takes the random-action
\* branch: the action returned is always the greedy one.
C2_NoExploration ==
    (epsilon = 0 /\ pc = "ready" /\ prevState # NoState) => branch = "best"

\* C3: greedy selection over a vector whose maximum occurs at two or more
\* positions returns the action at the smallest of them.
C3_FirstOfTies ==
    (pc = "fun" /\ arg.fn = "pick" /\ res # << >>
        /\ Cardinality(ArgMaxSet(arg.values)) >= 2)
    => res[1] = Actions[Least(ArgMaxSet(arg.values))]

\* C3's case: a tie whose first position is not the first action.
C3_Witness ==
    /\ pc = "fun" /\ arg.fn = "pick" /\ res # << >>
    /\ Cardinality(ArgMaxSet(arg.values)) >= 2
    /\ Least(ArgMaxSet(arg.values)) = 3
    /\ res[1] = "l"

\* C4: on every tick after the first the value written for the prior pair is
\* (1 - 0.1) * Q(prevKey, prevAction) + 0.1 * (R + 0.6 * maxNext), R the
\* reward of the arriving state and maxNext the largest value of the current
\* key's vector read before the write.
C4_TDValue ==
    [][ (IsTick /\ prevState # NoState)
        => LET pk == prevState[1].key
               i == Canon(prevAction)
               ck == prevState'[1].key
               before == IF Has(q, ck) THEN Lookup(q, ck) ELSE Zeros
               maxNext == before[Least(ArgMaxSet(before))]
               R == RInt(reward(prevState'[1]))
           IN  Lookup(q', pk)[i] =
                   RAdd(RMul(<<9, 10>>, Lookup(q, pk)[i]),
                        RMul(<<1, 10>>, RAdd(R, RMul(<<3, 5>>, maxNext)))) ]_vars

\* C4's case: a learned value 1 updated with R = 0 and maxNext = 1 to 0.96.
C4_Witness ==
    /\ pc = "ready" /\ calls >= 3 /\ prevState # NoState
    /\ \E i \in 1..Len(q) : \E j \in 1..5 : q[i][2][j] = <<24, 25>>

\* C5: whenever a choose_action call has returned, the file holds the table
\* in memory: every insertion and every update so far.
C5_DurableAfterReturn ==
    (pc = "ready" /\ prevState # NoState)
    => /\ disk.exists
       /\ AsMap(json_load(disk.text)) = AsMap(q)

\* C5's case: two insertions and an update have been made and are on file.
C5_Witness ==
    /\ pc = "ready" /\ prevState # NoState
    /\ Len(q) >= 2
    /\ \E i \in 1..Len(q) : q[i][2] # Zeros
    /\ disk.exists
    /\ AsMap(json_load(disk.text)) = AsMap(q)

\* C6: constructing the agent when the file is missing succeeds with an
\* empty table if a training identifier was given, and fails, creating no
\* table, if none was given.
C6_MissingTable ==
    [][ (pc = "new" /\ pc' # "new" /\ ~disk.exists)
        => /\ disk' = disk
           /\ IF train' # None
              THEN pc' = "ready" /\ q' = << >>
              ELSE pc' = "failed" ]_vars

\* C6's case: construction without an identifier has failed on a missing file.
C6_Witness == pc = "failed" /\ train = None /\ ~disk.exists

\* C7: reward is the score whenever at_goal holds (also with is_done), -10
\* when is_done holds without at_goal, and 0 for every other state.
C7_Reward ==
    (pc = "fun" /\ arg.fn = "state" /\ res # << >>)
    => /\ arg.s.at_goal => res[1].reward = arg.s.score
       /\ (arg.s.is_done /\ ~arg.s.at_goal) => res[1].reward = -10
       /\ (~arg.s.is_done /\ ~arg.s.at_goal) => res[1].reward = 0

\* C7's case: a state at the goal that is also done yields its score.
C7_Witness ==
    /\ pc = "fun" /\ arg.fn = "state" /\ res # << >>
    /\ arg.s.at_goal /\ arg.s.is_done
    /\ arg.s.score = 10 /\ res[1].reward = 10

\* C8: a tick whose key is not in the table leaves it mapped to five zeros;
\* a tick whose key is in the table does not reset its vector: its entries
\* stay as they were (but for the one entry the tick's TD update writes when
\* the key is also the prior key).
C8_ZeroInitOnce ==
    [][ IsTick
        => LET ck == prevState'[1].key
           IN  IF ~Has(q, ck)
               THEN Has(q', ck) /\ Lookup(q', ck) = Zeros
               ELSE \A j \in 1..Len(Actions) :
                       \/ /\ prevState # NoState
                          /\ prevState[1].key = ck
                          /\ j = Canon(prevAction)
                       \/ Lookup(q', ck)[j] = Lookup(q, ck)[j] ]_vars

\* C8's case: the last tick came with a key whose vector holds a learned value.
C8_Witness ==
    /\ pc = "ready" /\ prevState # NoState
    /\ Len(q) >= 2
    /\ Lookup(q, prevState[1].key) # Zeros

SameWindow(s1, s2) ==
    \A dx \in -2..2, dy \in -2..1 :
        Get(s1, s1.frog_x + dx, s1.frog_y + dy) = Get(s2, s2.frog_x + dx, s2.frog_y + dy)

\* C10: two raw states with identical 5x4 windows have equal keys, whatever
\* the frog's position, the cells outside the window, the score and the
\* terminal flags are.
C10_KeyOfWindow ==
    (pc = "fun" /\ arg.fn = "state" /\ res # << >>)
    => \A g \in Placements :
          SameWindow(arg.s, g)
          => \A f \in Outcomes : compute_key(Raw(g, f)) = res[1].key

\* C10's case: a state whose key shows a car and that shares its window with
\* a state of another position, other cells, another score and other flags.
C10_Witness ==
    /\ pc = "fun" /\ arg.fn = "state" /\ res # << >>
    /\ \E i \in 1..Len(res[1].key) : res[1].key[i] = "c"
    /\ \E g \in Placements :
          /\ g.frog_y # arg.s.frog_y
          /\ g.cells # arg.s.cells
          /\ SameWindow(arg.s, g)
          /\ \E f \in Outcomes :
                /\ f.score # arg.s.score
                /\ f.at_goal # arg.s.at_goal
                /\ f.is_done # arg.s.is_done
                /\ compute_key(Raw(g, f)) = res[1].key

\* C11: every key of the table maps to a vector of exactly five entries, in
\* memory and in the file, in every run that starts from no file or from a
\* file the agent wrote.
C11_FiveEntries ==
    /\ \A i \in 1..Len(q) : Len(q[i][2]) = Len(Actions)
    /\ disk.exists =>
           \A i \in 1..Len(disk.text) : Len(disk.text[i].array) = Len(Actions)

\* a table of two keys, one of them holding an updated value
C11_Witness ==
    /\ pc = "ready"
    /\ Len(q) = 2
    /\ \E i \in 1..Len(q) : q[i][2] # Zeros
    /\ \A i \in 1..Len(q) : Len(q[i][2]) = 5

\* the five actions as a set
ActionSet == { Actions[i] : i \in 1..Len(Actions) }

\* the state ends an episode: the goal reached or the frog lost
Terminal(qs) == qs.at_goal \/ qs.is_done

\* the key of the state where a car ends the episode
CarKey == compute_key([ frog_x |-> 0, frog_y |-> 1, cells |-> Board("c") ])

\* C12: the agent is constructed with no prior transition, has one after
\* every choose_action call and never returns to none within the process,
\* not even after a terminal tick; the pair recorded on a terminal tick is
\* updated on the next tick with the reward and the best value of the state
\* that tick brings, the first state of the next episode.
C12_PriorKept ==
    [][ /\ (pc = "new" /\ pc' = "ready")
            => (prevState' = NoState /\ prevAction' = None)
        /\ IsTick => (prevState' # NoState /\ prevAction' \in ActionSet)
        /\ (pc = "ready" /\ pc' = "ready" /\ prevState # NoState)
            => prevState' # NoState
        /\ (IsTick /\ prevState # NoState /\ Terminal(prevState[1]))
            => LET pk == prevState[1].key
                   i == Canon(prevAction)
                   first == prevState'[1]
                   before == IF Has(q, first.key) THEN Lookup(q, first.key) ELSE Zeros
               IN  Lookup(q', pk)[i] =
                       RAdd(RMul(RSub(RInt(1), alpha), Lookup(q, pk)[i]),
                            RMul(alpha, RAdd(RInt(reward(first)),
                                             RMul(gamma, max(before))))) ]_vars

\* C12's case: the tick after a lost episode brought the goal, and the pair of
\* the lost episode's last state carries the goal's reward: 0.1 * 10.
C12_Witness ==
    /\ pc = "ready" /\ calls = 2
    /\ prevState # NoState /\ prevState[1].at_goal
    /\ Has(q, CarKey)
    /\ \E j \in 1..Len(Actions) : Lookup(q, CarKey)[j] = RInt(1)

\* the value a table holds for a key and a position, zero for a key it lacks
ValueAt(qq, k, j) == IF Has(qq, k) THEN Lookup(qq, k)[j] ELSE RInt(0)

\* the pairs of key and position whose value differs between two tables
Changed(qa, qb) ==
    { e \in (Keys(qa) \cup Keys(qb)) \X (1..Len(Actions)) :
        ValueAt(qa, e[1], e[2]) # ValueAt(qb, e[1], e[2]) }

\* the temporal-difference value for an old value, a reward and a best value
TD(old, R, maxNext) ==
    RAdd(RMul(RSub(RInt(1), alpha), old),
         RMul(alpha, RAdd(RInt(R), RMul(gamma, maxNext))))

\* C13: the first choose_action call of a process changes no value of the
\* table (it can only insert a zero vector); every later call performs
\* exactly one update, so the table differs in one value when the update
\* moves it and in none otherwise; one transition is pending at a time.
C13_OneUpdatePerCall ==
    [][ IsTick
        => /\ Len(prevState') = 1
           /\ Keys(q') = Keys(q) \cup { prevState'[1].key }
           /\ prevState = NoState => Changed(q, q') = {}
           /\ prevState # NoState
               => LET pk == prevState[1].key
                      i == Canon(prevAction)
                      old == Lookup(q, pk)[i]
                      new == TD(old, reward(prevState'[1]),
                                max(IF Has(q, prevState'[1].key)
                                    THEN Lookup(q, prevState'[1].key)
                                    ELSE Zeros))
                  IN  Cardinality(Changed(q, q')) = IF new = old THEN 0 ELSE 1 ]_vars

\* C13's case: three calls have been made and the table differs from zeros
\* in two values, one for each call after the first.
C13_Witness ==
    /\ pc = "ready" /\ calls = 3
    /\ prevState # NoState
    /\ Len(q) = 2
    /\ Cardinality(Changed(<< <<q[1][1], Zeros>>, <<q[2][1], Zeros>> >>, q)) = 2

\* C14: the value a call after the first changes is the one stored for the
\* key of the previous call's state and the action the previous call
\* returned, whether that action was greedy or random, at the action's
\* position in u, d, l, r, _; the prior transition is replaced by the
\* current one only after that update.
C14_UpdatesPriorPair ==
    [][ IsTick
        => /\ prevAction' = ret'
           /\ prevState # NoState
               => /\ prevAction = ret
                  /\ Changed(q, q') \subseteq { << prevState[1].key, Canon(ret) >> }
                  /\ Lookup(q', prevState[1].key)[Canon(ret)] =
                         TD(Lookup(q, prevState[1].key)[Canon(ret)],
                            reward(prevState'[1]),
                            max(IF Has(q, prevState'[1].key)
                                THEN Lookup(q, prevState'[1].key)
                                ELSE Zeros)) ]_vars

\* C14's case: the first call returned the random action "r" and the second
\* call wrote the value at the position of "r".
C14_Witness ==
    /\ pc = "ready" /\ calls = 2 /\ prevState # NoState
    /\ \E i \in 1..Len(q) : q[i][2][Canon("r")] # RInt(0)

\* the table as the update of a call finds it: the current key present
Arrived(qq, k) == IF Has(qq, k) THEN qq ELSE Append(qq, <<k, Zeros>>)

\* the keys of a table in their order
KeyOrder(qq) == [ n \in 1..Len(qq) |-> qq[n][1] ]

\* C15: a TD update assigns one scalar of the table: the other four entries
\* of the prior key's vector, the vectors of all other keys and the keys
\* themselves are as the update found them.
C15_UpdateFrame ==
    [][ (IsTick /\ prevState # NoState)
        => LET found == Arrived(q, prevState'[1].key)
               pk == prevState[1].key
               i == Canon(prevAction)
           IN  /\ KeyOrder(q') = KeyOrder(found)
               /\ \A n \in 1..Len(found) :
                      \A j \in 1..Len(Actions) :
                          (found[n][1] # pk \/ j # i)
                          => q'[n][2][j] = found[n][2][j] ]_vars

\* C15's case: one update has been made to a table of two keys, and one
\* scalar of the ten differs from zero.
C15_Witness ==
    /\ pc = "ready" /\ calls = 2 /\ prevState # NoState
    /\ Len(q) = 2
    /\ Cardinality({ e \in (1..2) \X (1..Len(Actions)) : q[e[1]][2][e[2]] # RInt(0) }) = 1

\* C16: in a run from an empty table where every tick's reward is 0 (no goal
\* reached, no failure), every value stored, in memory and in the file, is 0
\* after every tick.
C16_QuietStaysZero ==
    /\ \A i \in 1..Len(q) : \A j \in 1..Len(q[i][2]) : q[i][2][j] = RInt(0)
    /\ disk.exists =>
           \A i \in 1..Len(disk.text) :
               \A j \in 1..Len(disk.text[i].array) :
                   FromJsonNumber(disk.text[i].array[j]) = RInt(0)

\* C16's case: updates with reward 0 have been applied over two keys.
C16_Witness ==
    /\ pc = "ready" /\ calls = MaxTicks /\ prevState # NoState
    /\ reward(prevState[1]) = 0 /\ prevState[1].score > 0
    /\ Len(q) = 2
    /\ \A i \in 1..Len(q) : q[i][2] = Zeros

\* C17: findBestAction takes the random-action branch with probability
\* epsilon: of the 100 equally likely samples exactly epsilon * 100 lead to
\* a random action.  Where the action random.choice draws is not the greedy
\* one, the samples returning another action than the greedy one are the
\* samples that took the random branch.
C17_ExploreRate ==
    (pc = "fun" /\ arg.fn = "find" /\ res # << >>
        /\ pickRandomAction(arg.choice) # Actions[Least(ArgMaxSet(arg.values))])
    => Cardinality({ rand \in RandRange :
                       res[1][rand] # Actions[Least(ArgMaxSet(arg.values))] })
           = epsilon * 100

\* the rows of the window in the order the key lists them
KeyRows == << -1, -2, 0, 1 >>

\* the offset from the frog that a position of the key shows
KeyOffset(p) == << ((p - 1) % 5) - 2, KeyRows[((p - 1) \div 5) + 1] >>

OtherTrain(t) == IF t = None THEN TableName ELSE None

C19_StrictlyIncreasing ==
    [][ pc = "update"
        => /\ arg.n = 0 => res'[1] = FInt(1)
           /\ FLess(res[1], res'[1])
           /\ FLess(res'[1], FInt(arg.R)) ]_vars

\* C19 as the floats have it: the first application yields 1.0; the values
\* never decrease and stay strictly below R; they increase strictly for the
\* first 328 applications and stay at the value then reached, the largest
\* float the rounded rule can leave, from the 329th application on.
C19_IncreasesUntilStall ==
    [][ pc = "update"
        => /\ arg.n = 0 => res'[1] = FInt(1)
           /\ ~FLess(res'[1], res[1])
           /\ FLess(res'[1], FInt(arg.R))
           /\ arg.n < 328 => FLess(res[1], res'[1])
           /\ arg.n >= 328 => res'[1] = res[1] ]_vars

\* C19's case: after 329 applications the value lies between 9 and R and
\* one more application gives the same value.
C19_Witness ==
    /\ pc = "update" /\ arg.n = 329
    /\ FLess(FInt(9), res[1]) /\ FLess(res[1], FInt(arg.R))
    /\ newQValue(res[1], arg.R, FInt(arg.maxNext)) = res[1]

====
